---- MODULE Spec2Model ----
(***************************************************************************)
(* Multi-object handler binding and pooled dispatch of package ghttp:      *)
(* net/ghttp/ghttp_server_service_multi_object.go.                         *)
(*                                                                         *)
(* Two halves share one state: the binding calls, which fill the router's  *)
(* table with dispatch closures, and the requests, each of which runs one  *)
(* dispatch closure step by step, interleaved with the other requests.     *)
(***************************************************************************)
EXTENDS Integers, Sequences, FiniteSets, TLC

VARIABLES
    routes,                   \* the router's table: key -> handlerItem
    lastBind,                 \* input and outcome of the latest binding call
    serviceMultiObjectCache,  \* type name -> pool (a Go map, unguarded)
    pools,                    \* every gpool.Pool ever made: creator object, idle list
    entries,                  \* every serviceMultiObjectInfo ever made by a factory
    field,                    \* heap: struct address -> last request that wrote its field
    reqs,                     \* the requests: closure, position, locals, call log
    crashed,                  \* the runtime aborted the process (concurrent map access)
    evicted                   \* entries the pool dropped on idle timeout

vars == <<routes, lastBind, serviceMultiObjectCache, pools, entries, field,
          reqs, crashed, evicted>>

bindVars == <<routes, lastBind>>
dispatchVars == <<serviceMultiObjectCache, pools, entries, field, reqs,
                  crashed, evicted>>

----------------------------------------------------------------------------
(* Bounds *)

\* Requests the router dispatches in one behaviour.
MaxRequests == 2

\* Binding calls in one behaviour of SpecBind.
MaxBinds == 2

----------------------------------------------------------------------------
(* The bound types and objects the model is exercised with *)

HandlerSig == "func(*ghttp.Request)"
OtherSig == "func(int)"

\* Go strings are sequences of characters.
mBad == <<"B", "a", "d">>
mBar == <<"B", "a", "r">>
mFoo == <<"F", "o", "o">>
mGet == <<"G", "e", "t">>
mIndex == <<"I", "n", "d", "e", "x">>
mInit == <<"I", "n", "i", "t">>
mPost == <<"P", "o", "s", "t">>
mShow == <<"S", "h", "o", "w">>
mShut == <<"S", "h", "u", "t">>
nUser == <<"U", "s", "e", "r">>
nOrder == <<"O", "r", "d", "e", "r">>

\* reflect lists a type's exported methods sorted by name.
TypeDefs ==
    [aUser |-> [pkgPath |-> "app/a", name |-> nUser,
                methods |-> << [name |-> mBad,   sig |-> OtherSig],
                               [name |-> mFoo,   sig |-> HandlerSig],
                               [name |-> mGet,   sig |-> HandlerSig],
                               [name |-> mIndex, sig |-> HandlerSig],
                               [name |-> mInit,  sig |-> HandlerSig],
                               [name |-> mPost,  sig |-> OtherSig],
                               [name |-> mShut,  sig |-> HandlerSig] >>],
     bUser |-> [pkgPath |-> "app/b", name |-> nUser,
                methods |-> << [name |-> mBar,   sig |-> HandlerSig],
                               [name |-> mFoo,   sig |-> OtherSig],
                               [name |-> mInit,  sig |-> HandlerSig] >>],
     aOrder |-> [pkgPath |-> "app/a", name |-> nOrder,
                 methods |-> << [name |-> mShow, sig |-> HandlerSig],
                                [name |-> mShut, sig |-> OtherSig] >>]]

\* kind "ptr": the caller passed &T{...}, addr is the struct it points to;
\* kind "struct": the caller passed a T value.
Objects ==
    [u1 |-> [kind |-> "ptr",    typ |-> "aUser",  addr |-> 1],
     u2 |-> [kind |-> "ptr",    typ |-> "aUser",  addr |-> 2],
     w  |-> [kind |-> "ptr",    typ |-> "bUser",  addr |-> 3],
     o  |-> [kind |-> "ptr",    typ |-> "aOrder", addr |-> 4],
     s  |-> [kind |-> "struct", typ |-> "aUser",  addr |-> 5]]

ObjectIds == DOMAIN Objects
NumObjects == Cardinality(ObjectIds)

----------------------------------------------------------------------------
(* Strings: package strings, gstr, gregex *)

LowerLetters == <<"a", "b", "c", "d", "e", "f", "g", "h", "i", "j", "k", "l", "m",
                  "n", "o", "p", "q", "r", "s", "t", "u", "v", "w", "x", "y", "z">>
UpperLetters == <<"A", "B", "C", "D", "E", "F", "G", "H", "I", "J", "K", "L", "M",
                  "N", "O", "P", "Q", "R", "S", "T", "U", "V", "W", "X", "Y", "Z">>
Digits == {"0", "1", "2", "3", "4", "5", "6", "7", "8", "9"}

IsLower(c) == \E i \in 1..Len(LowerLetters) : LowerLetters[i] = c
IsUpper(c) == \E i \in 1..Len(UpperLetters) : UpperLetters[i] = c
IsLetter(c) == IsLower(c) \/ IsUpper(c)
\* the regexp class \w
IsWord(c) == IsLetter(c) \/ c \in Digits \/ c = "_"

ToLowerChar(c) ==
    IF IsUpper(c)
    THEN LowerLetters[CHOOSE i \in 1..Len(UpperLetters) : UpperLetters[i] = c]
    ELSE c

ToUpperChar(c) ==
    IF IsLower(c)
    THEN UpperLetters[CHOOSE i \in 1..Len(LowerLetters) : LowerLetters[i] = c]
    ELSE c

RECURSIVE ToLower(_)
ToLower(str) ==
    IF str = <<>> THEN <<>> ELSE <<ToLowerChar(Head(str))>> \o ToLower(Tail(str))

RECURSIVE ToUpper(_)
ToUpper(str) ==
    IF str = <<>> THEN <<>> ELSE <<ToUpperChar(Head(str))>> \o ToUpper(Tail(str))

\* strings.EqualFold
EqualFold(a, b) == ToLower(a) = ToLower(b)

\* The positions (1-based) at which sub occurs in str.
Occurrences(str, sub) ==
    {i \in 1..(Len(str) - Len(sub) + 1) : SubSeq(str, i, i + Len(sub) - 1) = sub}

Min(S) == CHOOSE x \in S : \A y \in S : x <= y
Max(S) == CHOOSE x \in S : \A y \in S : x >= y

\* strings.Index, 1-based; 0 when sub does not occur (Go: -1).
StrIndex(str, sub) ==
    IF Occurrences(str, sub) = {} THEN 0 ELSE Min(Occurrences(str, sub))

\* gstr.PosRI: the last occurrence, compared without case; 0 when none (Go: -1).
PosRI(str, sub) ==
    LET occ == Occurrences(ToLower(str), ToLower(sub))
    IN  IF occ = {} THEN 0 ELSE Max(occ)

\* strings.Split(str, sep) for a one-character separator.
RECURSIVE Split(_, _)
Split(str, sep) ==
    LET i == StrIndex(str, <<sep>>)
    IN  IF i = 0 THEN <<str>>
        ELSE <<SubSeq(str, 1, i - 1)>> \o Split(SubSeq(str, i + 1, Len(str)), sep)

\* strings.Replace(str, old, new, -1), old not empty.
RECURSIVE ReplaceAll(_, _, _)
ReplaceAll(str, old, new) ==
    LET i == StrIndex(str, old)
    IN  IF i = 0 THEN str
        ELSE SubSeq(str, 1, i - 1) \o new
             \o ReplaceAll(SubSeq(str, i + Len(old), Len(str)), old, new)

RECURSIVE TrimLeft(_, _)
TrimLeft(str, c) ==
    IF str # <<>> /\ Head(str) = c THEN TrimLeft(Tail(str), c) ELSE str

RECURSIVE TrimRight(_, _)
TrimRight(str, c) ==
    IF str # <<>> /\ str[Len(str)] = c
    THEN TrimRight(SubSeq(str, 1, Len(str) - 1), c) ELSE str

\* strings.TrimSpace (the model's only white space is the blank).
TrimSpace(str) == TrimRight(TrimLeft(str, " "), " ")

\* gregex.IsMatchString(`\{\.\w+\}`, str): a built-in placeholder occurs.
HasBuildIn(str) ==
    \E i \in 1..Len(str) : \E j \in (i + 3)..Len(str) :
        /\ str[i] = "{" /\ str[i + 1] = "." /\ str[j] = "}"
        /\ \A k \in (i + 2)..(j - 1) : IsWord(str[k])

----------------------------------------------------------------------------
(* reflect *)

\* reflect.Value.MethodByName: the method record, or the zero Value.
ZeroValue == [name |-> <<>>, sig |-> "invalid"]

MethodByName(typ, methodName) ==
    LET ms == TypeDefs[typ].methods
        hit == {i \in 1..Len(ms) : ms[i].name = methodName}
    IN  IF hit = {} THEN ZeroValue ELSE ms[CHOOSE i \in hit : TRUE]

IsValid(methodValue) == methodValue.sig # "invalid"

\* reflect.Type.Elem panics unless the type is a pointer (array, chan, map, slice).
ElemPanics(obj) == Objects[obj].kind # "ptr"

\* structName := t.Elem().Name()
StructName(obj) == TypeDefs[Objects[obj].typ].name

----------------------------------------------------------------------------
(* The pooled entry and its factory *)

TypeNames == {TypeDefs[t].name : t \in DOMAIN TypeDefs}

NoMethods == [n \in {} |-> ZeroValue]

\* lines 91-96: Init and Shut are converted with a single-valued type
\* assertion, which panics when the method exists with another signature.
HookPanics(typ, hook) ==
    LET m == MethodByName(typ, hook)
    IN  IsValid(m) /\ m.sig # HandlerSig

FactoryPanics(obj) ==
    HookPanics(Objects[obj].typ, mInit) \/ HookPanics(Objects[obj].typ, mShut)

\* lines 86-88: o.rVal = reflect.New(t); o.rVal.Elem().Set(v).  The new cell
\* holds a copy of v: of the pointer when the object is a pointer, so the
\* struct the entry's methods run on is the bound object's own struct; of the
\* struct when the object is a struct, which then lives at a fresh address.
InstanceOf(obj, id) ==
    IF Objects[obj].kind = "ptr" THEN Objects[obj].addr ELSE NumObjects + id

\* lines 82-97: the value the factory returns for entry number id.
NewInfo(obj, id) ==
    [object   |-> obj,
     typ      |-> Objects[obj].typ,
     inst     |-> InstanceOf(obj, id),
     methods  |-> NoMethods,
     initFunc |-> IsValid(MethodByName(Objects[obj].typ, mInit)),
     shutFunc |-> IsValid(MethodByName(Objects[obj].typ, mShut))]

\* niceCallFunc runs f under the failure boundary: whatever f does, the
\* caller sees a normal return.  The result is what propagates to the caller.
niceCallFunc(fault) == FALSE

\* lines 106-108, 117-119 and 122-124, 128-130: the three guarded calls.
InitCall(fault) == niceCallFunc(fault)
TargetCall(fault) == niceCallFunc(fault)
ShutCall(fault) == niceCallFunc(fault)

----------------------------------------------------------------------------
(* Requests *)

Running == {"lookup", "newpool", "get", "init", "method", "shut", "put"}
Borrowed == {"init", "method", "shut", "put"}

ReqIds == 1..Len(reqs)
InFlight == {r \in ReqIds : reqs[r].pc \in Running}

\* line 77: the router calls the dispatch function of the route it matched.
Dispatch(k) ==
    /\ ~crashed
    /\ k \in DOMAIN routes
    /\ reqs' = Append(reqs, [object     |-> routes[k].object,
                             methodName |-> routes[k].methodName,
                             pc         |-> "lookup",
                             pool       |-> 0,
                             o          |-> 0,
                             calls      |-> <<>>,
                             faults     |-> {},
                             panic      |-> "none"])
    /\ UNCHANGED <<serviceMultiObjectCache, pools, entries, field, crashed, evicted>>
    /\ UNCHANGED bindVars

\* line 79: pool, ok := serviceMultiObjectCache[structName]
LookupPool(r) ==
    /\ ~crashed
    /\ reqs[r].pc = "lookup"
    /\ LET p == serviceMultiObjectCache[StructName(reqs[r].object)]
       IN  reqs' = [reqs EXCEPT ![r].pool = p,
                                ![r].pc = IF p # 0 THEN "get" ELSE "newpool"]
    /\ UNCHANGED <<serviceMultiObjectCache, pools, entries, field, crashed,
                   evicted>>
    /\ UNCHANGED bindVars

\* The pool is made and never put in the registry.
StorePoolForgotten(cache, structName, p) == cache

\* The pool is put in the registry under every type name.
StorePoolEverywhere(cache, structName, p) == [n \in DOMAIN cache |-> p]

\* line 99: serviceMultiObjectCache[structName] = pool
StorePool(cache, structName, p) == [cache EXCEPT ![structName] = p]

\* lines 81-99: pool = gpool.New(..., factory over this closure's object);
\* serviceMultiObjectCache[structName] = pool
NewPool(r) ==
    /\ ~crashed
    /\ reqs[r].pc = "newpool"
    /\ pools' = Append(pools, [object |-> reqs[r].object, idle |-> <<>>])
    /\ serviceMultiObjectCache' =
          StorePool(serviceMultiObjectCache, StructName(reqs[r].object), Len(pools) + 1)
    /\ reqs' = [reqs EXCEPT ![r].pool = Len(pools) + 1, ![r].pc = "get"]
    /\ UNCHANGED <<entries, field, crashed, evicted>>
    /\ UNCHANGED bindVars

\* The map is read and written with no lock: when a write meets another
\* goroutine inside a map access the Go runtime may abort the process
\* ("concurrent map writes", "concurrent map read and map write").
ConcurrentMapFault(r) ==
    /\ ~crashed
    /\ reqs[r].pc = "newpool"
    /\ \E r2 \in ReqIds \ {r} : reqs[r2].pc \in {"lookup", "newpool"}
    /\ crashed' = TRUE
    /\ UNCHANGED <<serviceMultiObjectCache, pools, entries, field, reqs,
                   evicted>>
    /\ UNCHANGED bindVars

\* line 102: po, _ := pool.Get().  An idle entry is taken from the front of
\* the list; with none, the pool's factory makes one.
PoolGet(r) ==
    /\ ~crashed
    /\ reqs[r].pc = "get"
    /\ LET p == reqs[r].pool
       IN  IF pools[p].idle # <<>>
           THEN /\ pools' = [pools EXCEPT ![p].idle = Tail(@)]
                /\ reqs' = [reqs EXCEPT ![r].o = Head(pools[p].idle),
                                         ![r].pc = "init"]
                /\ UNCHANGED entries
           ELSE IF FactoryPanics(pools[p].object)
           THEN /\ reqs' = [reqs EXCEPT ![r].pc = "panicked",
                                         ![r].panic = "factory"]
                /\ UNCHANGED <<pools, entries>>
           ELSE /\ entries' = Append(entries,
                                     NewInfo(pools[p].object, Len(entries) + 1))
                /\ reqs' = [reqs EXCEPT ![r].o = Len(entries) + 1,
                                         ![r].pc = "init"]
                /\ UNCHANGED pools
    /\ UNCHANGED <<serviceMultiObjectCache, field, crashed, evicted>>
    /\ UNCHANGED bindVars

\* What a request records of one call into user code.
Call(r, what) == [what |-> what, o |-> reqs[r].o, inst |-> entries[reqs[r].o].inst,
                  typ |-> entries[reqs[r].o].typ]

\* lines 105-109
CallInit(r) ==
    /\ ~crashed
    /\ reqs[r].pc = "init"
    /\ IF entries[reqs[r].o].initFunc
       THEN \E fault \in BOOLEAN :
              reqs' = [reqs EXCEPT
                  ![r].calls = Append(@, Call(r, "init")),
                  ![r].faults = IF fault THEN @ \cup {"init"} ELSE @,
                  ![r].panic = IF InitCall(fault) THEN "user" ELSE @,
                  ![r].pc = IF InitCall(fault) THEN "panicked" ELSE "method"]
       ELSE reqs' = [reqs EXCEPT ![r].pc = "method"]
    /\ UNCHANGED <<serviceMultiObjectCache, pools, entries, field, crashed,
                   evicted>>
    /\ UNCHANGED bindVars

\* lines 117-119 and 122-124: the target runs on the entry's instance and
\* writes its request into the instance's field.
RunTarget(r, fault) ==
    /\ field' = [field EXCEPT ![entries[reqs[r].o].inst] = r]
    /\ reqs' = [reqs EXCEPT
          ![r].calls = Append(@, Call(r, "target")),
          ![r].faults = IF fault THEN @ \cup {"target"} ELSE @,
          ![r].panic = IF TargetCall(fault) THEN "user" ELSE @,
          ![r].pc = IF TargetCall(fault) THEN "panicked" ELSE "shut"]

\* An entry that keeps only the callable it resolved last.
CacheMethodAlone(methods, methodName, methodValue) == methodName :> methodValue

\* line 116: o.methods[methodName] = itemFunc
CacheMethod(methods, methodName, methodValue) ==
    (methodName :> methodValue) @@ methods

\* lines 111-125
CallMethod(r) ==
    /\ ~crashed
    /\ reqs[r].pc = "method"
    /\ LET o == reqs[r].o
           methodName == reqs[r].methodName
           methodValue == MethodByName(entries[o].typ, methodName)
       IN  IF methodName \in DOMAIN entries[o].methods
           THEN /\ \E fault \in BOOLEAN : RunTarget(r, fault)
                /\ UNCHANGED entries
           ELSE IF ~IsValid(methodValue)
           THEN \* line 115: Interface() of the zero Value panics
                /\ reqs' = [reqs EXCEPT ![r].pc = "panicked",
                                         ![r].panic = "lookup"]
                /\ UNCHANGED <<entries, field>>
           ELSE IF methodValue.sig # HandlerSig
           THEN \* line 115: the assertion fails, nothing is called
                /\ reqs' = [reqs EXCEPT ![r].pc = "shut"]
                /\ UNCHANGED <<entries, field>>
           ELSE /\ entries' = [entries EXCEPT ![o].methods =
                                  CacheMethod(@, methodName, methodValue)]
                /\ \E fault \in BOOLEAN : RunTarget(r, fault)
    /\ UNCHANGED <<serviceMultiObjectCache, pools, crashed, evicted>>
    /\ UNCHANGED bindVars

\* lines 127-131
CallShut(r) ==
    /\ ~crashed
    /\ reqs[r].pc = "shut"
    /\ IF entries[reqs[r].o].shutFunc
       THEN \E fault \in BOOLEAN :
              reqs' = [reqs EXCEPT
                  ![r].calls = Append(@, Call(r, "shut")),
                  ![r].faults = IF fault THEN @ \cup {"shut"} ELSE @,
                  ![r].panic = IF ShutCall(fault) THEN "user" ELSE @,
                  ![r].pc = IF ShutCall(fault) THEN "panicked" ELSE "put"]
       ELSE reqs' = [reqs EXCEPT ![r].pc = "put"]
    /\ UNCHANGED <<serviceMultiObjectCache, pools, entries, field, crashed,
                   evicted>>
    /\ UNCHANGED bindVars

\* line 133: pool.Put(o) appends the entry to the pool's idle list.
PoolPut(r) ==
    /\ ~crashed
    /\ reqs[r].pc = "put"
    /\ pools' = [pools EXCEPT ![reqs[r].pool].idle = Append(@, reqs[r].o)]
    /\ reqs' = [reqs EXCEPT ![r].pc = "done"]
    /\ UNCHANGED <<serviceMultiObjectCache, entries, field, crashed, evicted>>
    /\ UNCHANGED bindVars

\* gpool drops an entry that stayed idle for the pool's TTL (five minutes,
\* line 81); the oldest idle entry expires first.
Evict(p) ==
    /\ ~crashed
    /\ p \in 1..Len(pools)
    /\ pools[p].idle # <<>>
    /\ pools' = [pools EXCEPT ![p].idle = Tail(@)]
    /\ evicted' = evicted \cup {Head(pools[p].idle)}
    /\ UNCHANGED <<serviceMultiObjectCache, entries, field, reqs, crashed>>
    /\ UNCHANGED bindVars

----------------------------------------------------------------------------
(* The router's side of a binding call *)

defaultMethod == <<"A", "L", "L">>
defaultDomain == <<"d", "e", "f", "a", "u", "l", "t">>

\* The recognized HTTP verbs.
methodsMap ==
    { <<"G", "E", "T">>, <<"P", "U", "T">>, <<"P", "O", "S", "T">>,
      <<"D", "E", "L", "E", "T", "E">>, <<"P", "A", "T", "C", "H">>,
      <<"H", "E", "A", "D">>, <<"C", "O", "N", "N", "E", "C", "T">>,
      <<"O", "P", "T", "I", "O", "N", "S">>, <<"T", "R", "A", "C", "E">> }

\* parsePattern: "[METHOD:]path[@domain]"; an empty path is an error.
parsePattern(pattern) ==
    LET colons == {c \in 2..(Len(pattern) - 1) :
                      pattern[c] = ":" /\ IsLetter(pattern[c - 1])}
        c == IF colons = {} THEN 0 ELSE Min(colons)
        path1 == IF c = 0 THEN TrimSpace(pattern)
                 ELSE TrimSpace(SubSeq(pattern, c + 1, Len(pattern)))
        method == IF c = 0 THEN defaultMethod
                  ELSE LET start == Min({i \in 1..(c - 1) :
                                          \A k \in i..(c - 1) : IsLetter(pattern[k])})
                       IN  SubSeq(pattern, start, c - 1)
        ats == {a \in 2..(Len(path1) - 1) :
                   path1[a] = "@"
                   /\ (IsWord(path1[a + 1]) \/ path1[a + 1] \in {".", "-"})}
        a == IF ats = {} THEN 0 ELSE Max(ats)
        path2 == IF a = 0 THEN path1 ELSE TrimSpace(SubSeq(path1, 1, a - 1))
        domain == IF a = 0 THEN defaultDomain
                  ELSE LET stop == Max({j \in (a + 1)..Len(path1) :
                                          \A k \in (a + 1)..j :
                                             IsWord(path1[k]) \/ path1[k] \in {".", "-"}})
                       IN  SubSeq(path1, a + 1, stop)
    IN  [domain |-> domain,
         method |-> method,
         path   |-> IF path2 # <<"/">> THEN TrimRight(path2, "/") ELSE path2,
         err    |-> path2 = <<>>]

\* serveHandlerKey: "METHOD:path@domain", the method part left out when empty.
serveHandlerKey(method, path, domain) ==
    LET d == IF domain # <<>> THEN <<"@">> \o ToLower(domain) ELSE <<>>
    IN  IF method = <<>> THEN path \o d ELSE ToUpper(method) \o <<":">> \o path \o d

\* nameToUri: the case-normalized form of a type or method name in a path.
nameToUri(name) == ToLower(name)

BuildInStruct == <<"{", ".", "s", "t", "r", "u", "c", "t", "}">>
BuildInMethod == <<"{", ".", "m", "e", "t", "h", "o", "d", "}">>

\* mergeBuildInNameToPattern: fills the built-in placeholders of the pattern;
\* with no {.method} placeholder and allowAppend, appends "/method" to the path.
mergeBuildInNameToPattern(pattern, structName, methodName, allowAppend) ==
    LET p1 == ReplaceAll(pattern, BuildInStruct, nameToUri(structName))
        array == Split(p1, "@")
        uri == TrimRight(array[1], "/") \o <<"/">> \o nameToUri(methodName)
    IN  IF StrIndex(p1, BuildInMethod) # 0
        THEN ReplaceAll(p1, BuildInMethod, nameToUri(methodName))
        ELSE IF ~allowAppend THEN p1
        ELSE IF Len(array) > 1 THEN uri \o <<"@">> \o array[2]
        ELSE uri

NoRoutes == [k \in {} |-> [itemType |-> "", object |-> "", methodName |-> <<>>]]

\* bindHandlerByMap: every key of m is registered; a key already in the
\* table is overwritten.
bindHandlerByMap(table, m) == m @@ table

----------------------------------------------------------------------------
(* Binding calls *)

\* lines 68-75: callMultiObjectMethods takes the type name with
\* t.Elem().Name() before it returns the closure.
callMultiObjectMethodsPanics(object) == ElemPanics(object)

\* lines 211-220: the handlerItem of a route; itemFunc is the closure of
\* callMultiObjectMethods(object, methodName).
handlerItem(object, methodName) ==
    [itemType |-> "handlerTypeHandler", object |-> object, methodName |-> methodName]

\* lines 142-148: nil without a method argument, otherwise the trimmed
\* names of the comma-separated list.
MethodMap(method) ==
    IF Len(method) > 0
    THEN [isNil |-> FALSE,
          names |-> {TrimSpace(Split(method, ",")[i]) :
                        i \in 1..Len(Split(method, ","))}]
    ELSE [isNil |-> TRUE, names |-> {}]

\* lines 196-207: the diagnostic for a method that is not a func(*Request).
MismatchLevel(methodMap) ==
    IF Cardinality(methodMap.names) > 0 THEN "error" ELSE "debug"

\* lines 228-233: the key of the Index alias.
IndexAliasKey(key) ==
    LET p == PosRI(key, <<"/", "i", "n", "d", "e", "x">>)
        k == SubSeq(key, 1, p - 1) \o SubSeq(key, p + 6, Len(key))
    IN  IF Len(k) = 0 \/ k[1] = "@" THEN <<"/">> \o k ELSE k

\* A whole-object call that skips no method for its name.
IsHookNameNever(methodName) == FALSE

\* lines 188-190: Init and Shut are skipped by name.
IsHookName(methodName) == methodName = mInit \/ methodName = mShut

\* One round of the loop of lines 183-244, for method number i.
ObjectStep(acc, i, pattern, object, methodMap) ==
    LET t == TypeDefs[Objects[object].typ]
        mt == t.methods[i]
        methodName == mt.name
        key == mergeBuildInNameToPattern(pattern, t.name, methodName, TRUE)
    IN  IF ~methodMap.isNil /\ methodName \notin methodMap.names THEN acc
        ELSE IF IsHookName(methodName) THEN acc
        ELSE IF mt.sig # HandlerSig
        THEN [acc EXCEPT !.logs = Append(@, [level  |-> MismatchLevel(methodMap),
                                             method |-> methodName])]
        ELSE IF callMultiObjectMethodsPanics(object)
        THEN [acc EXCEPT !.panicked = TRUE]
        ELSE LET m1 == (key :> handlerItem(object, methodName)) @@ acc.m
             IN  IF EqualFold(methodName, mIndex) /\ ~HasBuildIn(pattern)
                 THEN IF PosRI(key, <<"/", "i", "n", "d", "e", "x">>) = 0
                      THEN \* line 230: key[0:p] with p = -1 panics
                           [acc EXCEPT !.panicked = TRUE]
                      ELSE [acc EXCEPT !.m = (IndexAliasKey(key) :>
                                                handlerItem(object, methodName)) @@ m1]
                 ELSE [acc EXCEPT !.m = m1]

RECURSIVE ObjectLoop(_, _, _, _, _)
ObjectLoop(acc, i, pattern, object, methodMap) ==
    IF acc.panicked \/ i > Len(TypeDefs[Objects[object].typ].methods) THEN acc
    ELSE ObjectLoop(ObjectStep(acc, i, pattern, object, methodMap),
                    i + 1, pattern, object, methodMap)

NoOutcome == [m |-> NoRoutes, logs |-> <<>>, panicked |-> FALSE, bound |-> FALSE]

\* A whole-object call that goes on with a pattern that did not parse.
PatternErrorIgnored(parsed) == FALSE

\* lines 152-155: if err != nil { s.Logger().Fatal(err); return }
PatternError(parsed) == parsed.err

\* lines 137-246.  The outcome: the map handed to bindHandlerByMap (bound
\* tells whether it was handed over), the diagnostics, and whether the call
\* panicked.
doBindMultiObject(pattern, object, method) ==
    LET methodMap == MethodMap(method)
        parsed == parsePattern(pattern)
        pattern1 == IF EqualFold(parsed.method, defaultMethod)
                    THEN serveHandlerKey(<<>>, parsed.path, parsed.domain)
                    ELSE pattern
        acc == ObjectLoop(NoOutcome, 1, pattern1, object, methodMap)
    IN  IF PatternError(parsed)
        THEN [NoOutcome EXCEPT !.logs = <<[level |-> "fatal", method |-> <<>>]>>]
        ELSE IF acc.panicked THEN [acc EXCEPT !.m = NoRoutes]
        ELSE [acc EXCEPT !.bound = TRUE]

\* lines 270-273: Logger().Fatal for a method the type does not have.
InvalidMethodNameLevel == "fatal"

\* A single-method call that would treat a method of another signature as it
\* treats a missing one.
InvalidRouteMethodLevelFatal == "fatal"

\* lines 286-293: Logger().Errorf, then return, for a method that is not a
\* func(*Request).
InvalidRouteMethodLevel == "error"

\* lines 248-308
doBindMultiObjectMethod(pattern, object, method) ==
    LET t == TypeDefs[Objects[object].typ]
        methodName == TrimSpace(method)
        methodValue == MethodByName(Objects[object].typ, methodName)
        key == mergeBuildInNameToPattern(pattern, t.name, methodName, FALSE)
    IN  IF ~IsValid(methodValue)
        THEN [NoOutcome EXCEPT !.logs = <<[level  |-> InvalidMethodNameLevel,
                                           method |-> methodName]>>]
        ELSE IF methodValue.sig # HandlerSig
        THEN [NoOutcome EXCEPT !.logs = <<[level  |-> InvalidRouteMethodLevel,
                                           method |-> methodName]>>]
        ELSE IF callMultiObjectMethodsPanics(object)
        THEN [NoOutcome EXCEPT !.panicked = TRUE]
        ELSE [NoOutcome EXCEPT !.m = (key :> handlerItem(object, methodName)) @@ NoRoutes,
                               !.bound = TRUE]

\* One round of the loop of lines 337-368.
RestStep(acc, i, pattern, object) ==
    LET t == TypeDefs[Objects[object].typ]
        mt == t.methods[i]
        methodName == mt.name
        key == mergeBuildInNameToPattern(methodName \o <<":">> \o pattern,
                                         t.name, methodName, FALSE)
    IN  IF ToUpper(methodName) \notin methodsMap THEN acc
        ELSE IF mt.sig # HandlerSig
        THEN [acc EXCEPT !.logs = Append(@, [level |-> "error", method |-> methodName])]
        ELSE IF callMultiObjectMethodsPanics(object)
        THEN [acc EXCEPT !.panicked = TRUE]
        ELSE [acc EXCEPT !.m = (key :> handlerItem(object, methodName)) @@ acc.m]

RECURSIVE RestLoop(_, _, _, _)
RestLoop(acc, i, pattern, object) ==
    IF acc.panicked \/ i > Len(TypeDefs[Objects[object].typ].methods) THEN acc
    ELSE RestLoop(RestStep(acc, i, pattern, object), i + 1, pattern, object)

\* lines 310-370
doBindMultiObjectRest(pattern, object) ==
    LET acc == RestLoop(NoOutcome, 1, pattern, object)
    IN  IF acc.panicked THEN [acc EXCEPT !.m = NoRoutes]
        ELSE [acc EXCEPT !.bound = TRUE]

----------------------------------------------------------------------------
(* The patterns, method lists and method names the binding calls are given *)

pUser == <<"/", "u", "s", "e", "r">>
pBuildIn == <<"/", "{", ".", "s", "t", "r", "u", "c", "t", "}",
              "/", "{", ".", "m", "e", "t", "h", "o", "d", "}">>
pRoot == <<"/">>
pEmpty == <<>>
pGetRoot == <<"G", "E", "T", ":", "/">>

Patterns == {pUser, pBuildIn, pRoot, pEmpty, pGetRoot}

mNope == <<"N", "o", "p", "e">>

\* the method argument of BindMultiObject: none, one name, several names
MethodLists ==
    { <<>>, mBad, mFoo \o <<",", " ">> \o mBad, mInit \o <<",">> \o mIndex }

\* the method argument of BindMultiObjectMethod
MethodArgs == { <<" ">> \o mFoo \o <<" ">>, mBad, mNope, mInit }

\* the objects given to the binding calls of SpecBind (u2 is a second u1)
BoundObjects == {"u1", "w", "o", "s"}

----------------------------------------------------------------------------
(* The binding calls as steps of the server's start *)

BindRecord(mode, pattern, object, method, before, out) ==
    [n        |-> lastBind.n + 1,
     mode     |-> mode,
     pattern  |-> pattern,
     object   |-> object,
     method   |-> method,
     before   |-> before,
     m        |-> out.m,
     logs     |-> out.logs,
     panicked |-> out.panicked,
     bound    |-> out.bound]

Bind(mode, pattern, object, method, out) ==
    /\ reqs = <<>>
    /\ routes' = IF out.bound THEN bindHandlerByMap(routes, out.m) ELSE routes
    /\ lastBind' = BindRecord(mode, pattern, object, method, routes, out)
    /\ UNCHANGED dispatchVars

\* lines 44-50
BindMultiObject(pattern, object, method) ==
    Bind("object", pattern, object, method,
         doBindMultiObject(pattern, object, method))

\* lines 58-60
BindMultiObjectMethod(pattern, object, method) ==
    Bind("method", pattern, object, method,
         doBindMultiObjectMethod(pattern, object, method))

\* lines 64-66
BindMultiObjectRest(pattern, object) ==
    Bind("rest", pattern, object, <<>>, doBindMultiObjectRest(pattern, object))

----------------------------------------------------------------------------
(* Specifications *)

NoBind == [n |-> 0, mode |-> "none", pattern |-> <<>>, object |-> "", method |-> <<>>,
           before |-> NoRoutes, m |-> NoRoutes, logs |-> <<>>,
           panicked |-> FALSE, bound |-> FALSE]

\* lines 33-36: the registry starts empty.
InitDispatch ==
    /\ serviceMultiObjectCache = [n \in TypeNames |-> 0]
    /\ pools = <<>>
    /\ entries = <<>>
    /\ field = [a \in 1..NumObjects |-> 0]
    /\ reqs = <<>>
    /\ crashed = FALSE
    /\ evicted = {}

\* The binding calls the serving server was started with.
Startup ==
    << [mode |-> "object", pattern |-> <<"/", "b">>, object |-> "w",  method |-> <<>>],
       [mode |-> "method", pattern |-> <<"/", "f">>, object |-> "u1", method |-> mFoo],
       [mode |-> "method", pattern |-> <<"/", "i">>, object |-> "u1", method |-> mIndex],
       [mode |-> "method", pattern |-> <<"/", "t">>, object |-> "u2", method |-> mFoo],
       [mode |-> "method", pattern |-> <<"/", "o">>, object |-> "o",  method |-> mShow] >>

Started == lastBind.n = Len(Startup)

\* The next binding call of the start.
Start ==
    /\ lastBind.n < Len(Startup)
    /\ LET c == Startup[lastBind.n + 1]
       IN  \/ c.mode = "object" /\ BindMultiObject(c.pattern, c.object, c.method)
           \/ c.mode = "method" /\ BindMultiObjectMethod(c.pattern, c.object, c.method)

\* Serving: the server is started with the calls of Startup, then requests
\* arrive.
Init ==
    /\ routes = NoRoutes
    /\ lastBind = NoBind
    /\ InitDispatch

Next ==
    \/ Start
    \/ \E k \in DOMAIN routes :
          Started /\ Len(reqs) < MaxRequests /\ Dispatch(k)
    \/ \E r \in ReqIds : LookupPool(r)
    \/ \E r \in ReqIds : NewPool(r)
    \/ \E r \in ReqIds : ConcurrentMapFault(r)
    \/ \E r \in ReqIds : PoolGet(r)
    \/ \E r \in ReqIds : CallInit(r)
    \/ \E r \in ReqIds : CallMethod(r)
    \/ \E r \in ReqIds : CallShut(r)
    \/ \E r \in ReqIds : PoolPut(r)
    \/ \E p \in 1..Len(pools) : Evict(p)

Spec == Init /\ [][Next]_vars

\* Serving one request at a time: the router calls a dispatch function only
\* when the one before has returned.
NextSeq ==
    \/ Start
    \/ \E k \in DOMAIN routes :
          Started /\ Len(reqs) < MaxRequests /\ InFlight = {} /\ Dispatch(k)
    \/ \E r \in ReqIds : LookupPool(r)
    \/ \E r \in ReqIds : NewPool(r)
    \/ \E r \in ReqIds : PoolGet(r)
    \/ \E r \in ReqIds : CallInit(r)
    \/ \E r \in ReqIds : CallMethod(r)
    \/ \E r \in ReqIds : CallShut(r)
    \/ \E r \in ReqIds : PoolPut(r)
    \/ \E p \in 1..Len(pools) : Evict(p)

SpecSeq == Init /\ [][NextSeq]_vars

\* Starting: the binding calls of a server that serves no request yet.
InitBind ==
    /\ routes = NoRoutes
    /\ lastBind = NoBind
    /\ InitDispatch

NextBind ==
    \/ \E pattern \in Patterns, object \in BoundObjects, method \in MethodLists :
          lastBind.n < MaxBinds /\ BindMultiObject(pattern, object, method)
    \/ \E pattern \in Patterns, object \in BoundObjects, method \in MethodArgs :
          lastBind.n < MaxBinds /\ BindMultiObjectMethod(pattern, object, method)
    \/ \E pattern \in Patterns, object \in BoundObjects :
          lastBind.n < MaxBinds /\ BindMultiObjectRest(pattern, object)

SpecBind == InitBind /\ [][NextBind]_vars

----------------------------------------------------------------------------
(* Properties of the dispatch function *)

Ended == {r \in ReqIds : reqs[r].pc \in {"done", "panicked"}}
Holding == {r \in ReqIds : reqs[r].pc \in Borrowed}

\* The type name an object is registered under in the registry.
TypeNameOf(obj) == TypeDefs[Objects[obj].typ].name

\* The entries that lie idle in pool p.
IdleIn(p) == {pools[p].idle[i] : i \in 1..Len(pools[p].idle)}

\* C1: no two requests that are both between pool.Get and pool.Put run
\* their hooks and target method on the same instance.
C1_InstanceHeldByOneRequest ==
    \A r1 \in Holding : \A r2 \in Holding \ {r1} :
        entries[reqs[r1].o].inst # entries[reqs[r2].o].inst

\* C2: whenever user code faulted in the Init hook, the target method or the
\* Shut hook of a request, the dispatch function returns normally: the
\* request does not end in a panic that reaches the router.
C2_FaultedRequestReturnsNormally ==
    \A r \in ReqIds : reqs[r].faults # {} => reqs[r].pc # "panicked"

\* C3: once a request in which a hook or the target method faulted has
\* ended, its entry is no longer held by it (it is back in the pool it was
\* borrowed from, borrowed again by a later request, or timed out), and every
\* later request to the same route that has ended has invoked its target.
C3_FaultLeavesPoolServable ==
    \A r \in Ended :
        reqs[r].faults # {} =>
            /\ \/ reqs[r].o \in IdleIn(reqs[r].pool)
               \/ reqs[r].o \in evicted
               \/ \E r2 \in ReqIds \ {r} : r2 > r /\ reqs[r2].o = reqs[r].o
            /\ \A r2 \in Ended :
                  (/\ r2 > r
                   /\ reqs[r2].object = reqs[r].object
                   /\ reqs[r2].methodName = reqs[r].methodName)
                  => \E i \in 1..Len(reqs[r2].calls) : reqs[r2].calls[i].what = "target"

\* The calls a request makes when nothing faults: Init if the entry has the
\* hook, the target, Shut if the entry has the hook.
ExpectedCalls(o) ==
    (IF entries[o].initFunc THEN <<"init">> ELSE <<>>)
    \o <<"target">>
    \o (IF entries[o].shutFunc THEN <<"shut">> ELSE <<>>)

\* C4: a request that returned with no fault has called Init (if the entry
\* has it), then the target, then Shut (if the entry has it), each once, in
\* this order and all on the entry it borrowed.
C4_InitTargetShutInOrder ==
    \A r \in ReqIds :
        (reqs[r].pc = "done" /\ reqs[r].faults = {}) =>
            /\ Len(reqs[r].calls) = Len(ExpectedCalls(reqs[r].o))
            /\ \A i \in 1..Len(reqs[r].calls) :
                  /\ reqs[r].calls[i].what = ExpectedCalls(reqs[r].o)[i]
                  /\ reqs[r].calls[i].o = reqs[r].o

\* C5: for each type name exactly one pool is ever created, and every
\* request borrows from the pool the registry holds for its type name.
C5_OnePoolPerTypeName ==
    /\ \A p1 \in 1..Len(pools) : \A p2 \in 1..Len(pools) :
          TypeNameOf(pools[p1].object) = TypeNameOf(pools[p2].object) => p1 = p2
    /\ \A r \in ReqIds :
          reqs[r].pool # 0 =>
              reqs[r].pool = serviceMultiObjectCache[TypeNameOf(reqs[r].object)]

\* C6: the instance of every entry is a copy: it is neither the bound
\* object's own struct nor the instance of another entry, and what a request
\* wrote through an entry is not seen in a bound object.
C6_EntryOwnsItsInstance ==
    /\ \A e \in 1..Len(entries) :
          /\ \A obj \in ObjectIds : entries[e].inst # Objects[obj].addr
          /\ \A e2 \in 1..Len(entries) : e2 # e => entries[e2].inst # entries[e].inst
    /\ \A obj \in ObjectIds : field[Objects[obj].addr] = 0

\* C7: when every started request has ended and no entry has timed out,
\* every entry ever created lies idle in the pool the registry holds for the
\* type name it was created under.
C7_EntriesBackInRegisteredPool ==
    (/\ ReqIds # {}
     /\ Ended = ReqIds
     /\ evicted = {})
    => \A e \in 1..Len(entries) :
          LET p == serviceMultiObjectCache[TypeNameOf(entries[e].object)]
          IN  p # 0 /\ e \in IdleIn(p)

\* C8: when requests do not overlap, two requests borrow from the same pool
\* exactly when the objects their routes were bound from have the same type
\* name.
C8_PoolPerTypeName ==
    \A r1 \in ReqIds : \A r2 \in ReqIds :
        (reqs[r1].pool # 0 /\ reqs[r2].pool # 0) =>
            ((reqs[r1].pool = reqs[r2].pool)
             <=> (TypeNameOf(reqs[r1].object) = TypeNameOf(reqs[r2].object)))

\* C8's case: two routes, bound by different binding calls from objects of
\* one type name (of different packages) and for different methods, have each
\* served a request, from one pool.
C8_Witness ==
    \E r1 \in ReqIds : \E r2 \in ReqIds :
        /\ reqs[r1].pool # 0 /\ reqs[r2].pool # 0
        /\ Objects[reqs[r1].object].typ # Objects[reqs[r2].object].typ
        /\ reqs[r1].methodName # reqs[r2].methodName
        /\ TypeNameOf(reqs[r1].object) = TypeNameOf(reqs[r2].object)
        /\ reqs[r1].pool = reqs[r2].pool

----------------------------------------------------------------------------
(* Properties of the binding calls *)

\* The method a single-method call names, as reflection finds it on the type.
NamedMethod == MethodByName(Objects[lastBind.object].typ, TrimSpace(lastBind.method))

MethodMissing == lastBind.mode = "method" /\ ~IsValid(NamedMethod)

MethodMismatched ==
    /\ lastBind.mode = "method"
    /\ IsValid(NamedMethod)
    /\ NamedMethod.sig # HandlerSig

\* The last binding call left the route table as it found it.
NoRouteRegistered == ~lastBind.bound /\ routes = lastBind.before

\* The levels of the diagnostics of the last binding call.
Levels == [i \in 1..Len(lastBind.logs) |-> lastBind.logs[i].level]

AskedFor ==
    LET t == TypeDefs[Objects[lastBind.object].typ]
        methodMap == MethodMap(lastBind.method)
    IN  {i \in 1..Len(t.methods) :
            /\ methodMap.isNil \/ t.methods[i].name \in methodMap.names
            /\ t.methods[i].name \notin {mInit, mShut}}

\* The last call registered a route for the method of this name.
Registered(methodName) ==
    \E k \in DOMAIN routes :
        /\ k \in DOMAIN lastBind.m
        /\ routes[k].object = lastBind.object
        /\ routes[k].methodName = methodName

WholeObjectCall == lastBind.mode = "object" /\ ~parsePattern(lastBind.pattern).err

\* C10, enumeration: in a whole-object call a method that fails the signature
\* check is not registered, and every method asked for that passes it is.
C10_MismatchNeverStopsEnumeration ==
    WholeObjectCall =>
        LET t == TypeDefs[Objects[lastBind.object].typ]
        IN  \A i \in AskedFor :
                Registered(t.methods[i].name) <=> (t.methods[i].sig = HandlerSig)

\* C10, diagnostic: the diagnostic for a method that fails the signature
\* check is fatal-level when a method filter was given and debug-level when
\* none was.
C10_MismatchLevelByFilter ==
    WholeObjectCall =>
        \A i \in 1..Len(lastBind.logs) :
            lastBind.logs[i].level =
                (IF Len(lastBind.method) > 0 THEN "fatal" ELSE "debug")

\* The keys the last binding call registered for the method of this name.
KeysOf(methodName) ==
    {k \in DOMAIN lastBind.m : lastBind.m[k].methodName = methodName}

\* A route key is "[METHOD:]path[@domain]": what precedes the path, the path,
\* and what follows it.
KeyPrefix(k) ==
    LET head == Split(k, "@")[1]
    IN  SubSeq(head, 1, StrIndex(head, <<":">>))

KeyPath(k) ==
    LET head == Split(k, "@")[1]
    IN  SubSeq(head, StrIndex(head, <<":">>) + 1, Len(head))

KeySuffix(k) == SubSeq(k, Len(Split(k, "@")[1]) + 1, Len(k))

SlashIndex == <<"/", "i", "n", "d", "e", "x">>

EndsInIndex(path) ==
    /\ Len(path) >= Len(SlashIndex)
    /\ SubSeq(path, Len(path) - Len(SlashIndex) + 1, Len(path)) = SlashIndex

\* The key k with the trailing /index of its path removed, the path being /
\* when nothing is left of it.
WithoutIndex(k) ==
    LET rest == SubSeq(KeyPath(k), 1, Len(KeyPath(k)) - Len(SlashIndex))
    IN  KeyPrefix(k) \o (IF rest = <<>> THEN <<"/">> ELSE rest) \o KeySuffix(k)

\* The method names of the type the last binding call was given.
MethodNames ==
    LET t == TypeDefs[Objects[lastBind.object].typ]
    IN  {t.methods[i].name : i \in 1..Len(t.methods)}

\* C11: the keys a whole-object call registers for Index, under a pattern
\* with no built-in placeholder, are exactly two: the merged key, whose path
\* ends in /index, and that key with the trailing /index removed (the path
\* being / when nothing is left); under a pattern with a placeholder, and for
\* every method not named Index, there is no second key.
C11_IndexAliasKeys ==
    WholeObjectCall =>
        /\ (~HasBuildIn(lastBind.pattern) /\ KeysOf(mIndex) # {}) =>
               \E k \in KeysOf(mIndex) :
                   /\ EndsInIndex(KeyPath(k))
                   /\ KeysOf(mIndex) = {k, WithoutIndex(k)}
                   /\ WithoutIndex(k) # k
        /\ HasBuildIn(lastBind.pattern) => Cardinality(KeysOf(mIndex)) <= 1
        /\ \A n \in MethodNames \ {mIndex} : Cardinality(KeysOf(n)) <= 1

\* The method name is a recognized HTTP verb, compared without case.
IsVerb(methodName) == ToUpper(methodName) \in methodsMap

\* C12: a REST call registers exactly one route for each method of the type
\* that is named after an HTTP verb and is a func(*Request), under a key that
\* starts with that verb as its method component, and no route for any other
\* method.
C12_RestRoutesPerVerb ==
    lastBind.mode = "rest" =>
        LET t == TypeDefs[Objects[lastBind.object].typ]
        IN  \A i \in 1..Len(t.methods) :
                LET n == t.methods[i].name
                IN  IF IsVerb(n) /\ t.methods[i].sig = HandlerSig
                    THEN /\ Cardinality(KeysOf(n)) = 1
                         /\ \A k \in KeysOf(n) :
                               /\ k \in DOMAIN routes
                               /\ routes[k] = handlerItem(lastBind.object, n)
                               /\ Len(k) > Len(n)
                               /\ SubSeq(k, 1, Len(n) + 1) = n \o <<":">>
                    ELSE KeysOf(n) = {}

\* C13: a whole-object or REST call adds or replaces no route whose target
\* method is Init or Shut, whatever their signature and whether or not the
\* method filter lists them.
C13_HooksNeverRouted ==
    lastBind.mode \in {"object", "rest"} =>
        /\ KeysOf(mInit) = {} /\ KeysOf(mShut) = {}
        /\ \A k \in DOMAIN routes :
              routes[k].methodName \in {mInit, mShut} =>
                  (k \in DOMAIN lastBind.before /\ routes[k] = lastBind.before[k])

\* C13's case: a whole-object call whose filter lists Init, for a type that
\* has Init as a func(*Request), registered the other listed method only.
C13_Witness ==
    /\ lastBind.mode = "object"
    /\ mInit \in MethodMap(lastBind.method).names
    /\ MethodByName(Objects[lastBind.object].typ, mInit).sig = HandlerSig
    /\ KeysOf(mIndex) # {}
    /\ KeysOf(mInit) = {}

\* The pattern of the last binding call does not parse.
PatternFails == lastBind.n > 0 /\ parsePattern(lastBind.pattern).err

\* The last binding call reported the fatal level once, handed nothing to
\* the router and left the route table as it was.
AbortedAsFatal ==
    /\ Levels = <<"fatal">>
    /\ ~lastBind.panicked
    /\ NoRouteRegistered

\* C14 as stated: a binding call of any mode whose pattern does not parse
\* aborts as fatal before a route is handed to the router, and the route
\* table is as before the call.
C14_PatternErrorAbortsAnyCall == PatternFails => AbortedAsFatal

\* C14 amended: a whole-object call whose pattern does not parse aborts as
\* fatal before a route is handed to the router, and the route table is as
\* before the call, whatever methods the object has.
C14_PatternErrorAbortsWholeObjectCall ==
    (PatternFails /\ lastBind.mode = "object") => AbortedAsFatal

\* C14's case: with routes in the table, a whole-object call for an object
\* with methods that qualify was given a pattern that does not parse.
C14_Witness ==
    /\ PatternFails
    /\ lastBind.mode = "object"
    /\ lastBind.before # NoRoutes
    /\ \E i \in AskedFor :
          TypeDefs[Objects[lastBind.object].typ].methods[i].sig = HandlerSig
    /\ AbortedAsFatal

\* C15: a whole-object call registers routes for exactly the methods that
\* are func(*Request) among those asked for (the listed ones when a filter is
\* given, all when none is; Init and Shut apart), and for no other method.
C15_FilterSelectsMethods ==
    WholeObjectCall =>
        LET t == TypeDefs[Objects[lastBind.object].typ]
        IN  \A i \in 1..Len(t.methods) :
                Registered(t.methods[i].name)
                    <=> (i \in AskedFor /\ t.methods[i].sig = HandlerSig)

\* C15, read to the letter for the filter: with a filter, every listed method
\* that is a func(*Request) is registered, Init and Shut included.
C15_ListedMethodsRegistered ==
    (WholeObjectCall /\ ~MethodMap(lastBind.method).isNil /\ ~lastBind.panicked) =>
        LET t == TypeDefs[Objects[lastBind.object].typ]
        IN  \A i \in 1..Len(t.methods) :
                (/\ t.methods[i].name \in MethodMap(lastBind.method).names
                 /\ t.methods[i].sig = HandlerSig)
                => Registered(t.methods[i].name)

----------------------------------------------------------------------------
(* Properties of the registry and the entries *)

\* C16: every call a request makes, into a hook or its target method, is on
\* an entry whose instance was created from the object the request's route
\* was bound from: that object's type and that object's value.
C16_InstanceFromBoundObject ==
    \A r \in ReqIds : \A i \in 1..Len(reqs[r].calls) :
        LET e == entries[reqs[r].calls[i].o]
        IN  /\ e.object = reqs[r].object
            /\ e.typ = Objects[reqs[r].object].typ
            /\ e.inst = InstanceOf(reqs[r].object, reqs[r].calls[i].o)

\* The next step of request r inside the dispatch function.
Step(r) ==
    \/ LookupPool(r)
    \/ NewPool(r)
    \/ PoolGet(r)
    \/ CallInit(r)
    \/ CallMethod(r)
    \/ CallShut(r)
    \/ PoolPut(r)

\* C17: no request in flight is ever left without a next step: it waits for
\* no other request and for no entry, so that with fair scheduling it
\* completes its dispatch.
C17_RequestNeverStuck == \A r \in InFlight : ENABLED Step(r)

\* Request r leaves line 111 in this step.
Resolves(r) == reqs[r].pc = "method" /\ reqs'[r].pc # "method"

\* The step appends a call of the target to the calls of request r.
InvokesTarget(r) ==
    /\ Len(reqs'[r].calls) = Len(reqs[r].calls) + 1
    /\ reqs'[r].calls[Len(reqs'[r].calls)].what = "target"
    /\ reqs'[r].calls[Len(reqs'[r].calls)].o = reqs[r].o

\* What a step may do to the method caches.
CacheStep ==
    /\ Len(entries') >= Len(entries)
    /\ \A e \in (Len(entries) + 1)..Len(entries') :
          entries'[e].methods = NoMethods
    /\ \A e \in 1..Len(entries) :
          /\ \A n \in DOMAIN entries[e].methods :
                /\ n \in DOMAIN entries'[e].methods
                /\ entries'[e].methods[n] = entries[e].methods[n]
          /\ \A n \in DOMAIN entries'[e].methods \ DOMAIN entries[e].methods :
                /\ entries'[e].methods[n].sig = HandlerSig
                /\ entries'[e].methods[n] = MethodByName(entries[e].typ, n)
                /\ \E r \in ReqIds :
                      /\ Resolves(r)
                      /\ reqs[r].o = e
                      /\ reqs[r].methodName = n
                      /\ InvokesTarget(r)
    /\ \A r \in ReqIds :
          (Resolves(r) /\ reqs[r].methodName \in DOMAIN entries[reqs[r].o].methods)
          => (entries' = entries /\ InvokesTarget(r))

\* C18: the method cache of an entry is empty when the entry is created; a
\* name enters it only in the step in which a request the entry serves
\* resolves that name, not cached before, to a func(*Request), which it then
\* invokes; no name is removed or rebound; a request for a cached name
\* invokes the target and leaves every cache as it is.
C18_MethodCacheOnlyGrows == [][CacheStep]_vars

\* C18's case: one entry served two requests for one name, one after the
\* other; the entry holds the name and both requests invoked the target.
C18_Witness ==
    \E e \in 1..Len(entries) :
        \E r1 \in ReqIds : \E r2 \in ReqIds :
              /\ r1 < r2
              /\ reqs[r1].o = e /\ reqs[r2].o = e
              /\ reqs[r1].methodName = reqs[r2].methodName
              /\ reqs[r1].methodName \in DOMAIN entries[e].methods
              /\ reqs[r1].pc = "done" /\ reqs[r2].pc = "done"
              /\ \E i \in 1..Len(reqs[r1].calls) : reqs[r1].calls[i].what = "target"
              /\ \E i \in 1..Len(reqs[r2].calls) : reqs[r2].calls[i].what = "target"

\* The requests that have gone through the lookup-or-create of lines 79-100
\* for this type name.
PastLookup(name) ==
    {r \in ReqIds : TypeNameOf(reqs[r].object) = name /\ reqs[r].pool # 0}

\* The registry in one state: empty as long as no request was dispatched,
\* whatever was bound; a type name is in it exactly when a request to a
\* route of that type name has gone through the lookup-or-create.
RegistryByRequests ==
    /\ reqs = <<>> => \A n \in TypeNames : serviceMultiObjectCache[n] = 0
    /\ \A n \in TypeNames :
          serviceMultiObjectCache[n] # 0 <=> PastLookup(n) # {}

C20_StructValueBinds ==
    (lastBind.n > 0 /\ Objects[lastBind.object].kind = "struct") =>
        /\ ~lastBind.panicked
        /\ WholeObjectCall =>
              LET t == TypeDefs[Objects[lastBind.object].typ]
              IN  \A i \in AskedFor :
                      t.methods[i].sig = HandlerSig => Registered(t.methods[i].name)

====
